---- MODULE Spec2Model ----
(***************************************************************************)
(* Credential and token lifecycle of the confess-api backend:              *)
(* password hashing, RS256 session tokens, purpose tokens, the in-memory   *)
(* verification-code cache and the authentication flows built on them.     *)
(*                                                                         *)
(* Every request handler runs on one asyncio event loop.  A handler is     *)
(* written as an operator from the state it reads and its request to the   *)
(* response and the state it leaves; the action of its route applies that  *)
(* operator at the instant `now`.  Tokens are self-contained signed claim  *)
(* sets: the server keeps no record of them, so a client may present any   *)
(* token that a request could have returned (Presentable).                 *)
(***************************************************************************)
EXTENDS Integers, Sequences, FiniteSets, TLC

(* ------------------------------ bounds -------------------------------- *)
MaxUsers == 1
\* racing account creations: requests in flight at once, rows they may add
MaxInFlight == 2
MaxRaceRows == 2

(* ------------------------- program constants -------------------------- *)
Verification_cache_ttl == 300
Verification_cache_maxsize == 1000
EMAIL_VERIFICATION_EXPIRE_HOURS == 24
PASSWORD_RESET_EXPIRE_HOURS == 1
ACCESS_TOKEN_EXPIRE_MINUTES == 30

(* ------------------------------ inputs -------------------------------- *)
Emails == {"a@x.com", "A@x.com", "b@x.com"}
Passwords == {"", "secret1"}
Salts == {1}
Codes == {"100000", "999999"}
\* the code generate_verification_code draws for a request; a client may
\* submit any of Codes
GeneratedCodes == {"100000"}
Purposes == {"email_verification", "password_reset"}
TimePoints == {0, 300, 3600}
\* instants at which the presented tokens were issued
IssueTimes == {0}

None == "None"
NoUser == 0

\* uuid4 values of the rows, in order of creation
UUIDs == <<"u1", "u2", "u3", "u4">>

\* str(user.id)
str(id) == UUIDs[id]

\* UUID(s); 0 stands for ValueError
UUID(s) ==
    IF \E i \in 1..Len(UUIDs) : UUIDs[i] = s
    THEN CHOOSE i \in 1..Len(UUIDs) : UUIDs[i] = s
    ELSE 0

\* str.lower() on the modelled addresses
lower(e) == IF e = "A@x.com" THEN "a@x.com" ELSE e

VARIABLES
    users,               \* users table: id -> row
    Verification_cache,  \* TTLCache, least recently used entry first
    now,                 \* wall clock, seconds
    consumed,            \* cache keys whose code was used since the last store
    pending              \* creations suspended at `await db.commit()`

vars == <<users, Verification_cache, now, consumed, pending>>

(* --------------------------- Secret hasher ---------------------------- *)
\* Two 73-byte passwords that agree on their first 72 bytes, and that prefix.
Long72 == "aaaaaaaaaaaaaaaaaaaaaaaaaaaaaaaaaaaaaaaaaaaaaaaaaaaaaaaaaaaaaaaaaaaaaaaa"
LongX == "aaaaaaaaaaaaaaaaaaaaaaaaaaaaaaaaaaaaaaaaaaaaaaaaaaaaaaaaaaaaaaaaaaaaaaaax"
LongY == "aaaaaaaaaaaaaaaaaaaaaaaaaaaaaaaaaaaaaaaaaaaaaaaaaaaaaaaaaaaaaaaaaaaaaaaay"

\* bcrypt reads at most 72 bytes of the password.
truncate72(p) == IF p \in {LongX, LongY} THEN Long72 ELSE p

\* bcrypt: the hash embeds its salt; checkpw re-hashes with that salt.
bcrypt(p, salt) == [plain |-> truncate72(p), salt |-> salt]

\* The bcrypt package is not pinned: releases before 5.0 truncate a longer
\* password silently, 5.0 and later raise ValueError for it.
BcryptBuilds == {"truncates", "raises"}

\* hashpw(password, gensalt()) of the installed build
hashpw(build, p, salt) ==
    IF build = "raises" /\ p \in {LongX, LongY}
    THEN [err |-> "ValueError", hash |-> bcrypt("", salt)]
    ELSE [err |-> None, hash |-> bcrypt(p, salt)]

\* checkpw(password, hashed) of the installed build
checkpw(build, p, hashed) ==
    IF build = "raises" /\ p \in {LongX, LongY}
    THEN [err |-> "ValueError", ok |-> FALSE]
    ELSE [err |-> None, ok |-> bcrypt(p, hashed.salt) = hashed]

hash_password(p, salt) == bcrypt(p, salt)

verify_password(plain_password, hashed_password) ==
    bcrypt(plain_password, hashed_password.salt) = hashed_password

(* ------------------------- Key-pair signer ---------------------------- *)
\* A token is a claim set plus whether its signature verifies under the
\* configured public key.
jwt_encode(payload) == [claims |-> payload, signed |-> TRUE]

NoToken == [claims |-> [none |-> TRUE], signed |-> FALSE]

\* jwt.decode: signature first, then exp (valid while t < exp).
jwt_decode(token, t) ==
    IF ~token.signed THEN [err |-> "InvalidTokenError", payload |-> [none |-> TRUE]]
    ELSE IF ~(t < token.claims.exp)
         THEN [err |-> "ExpiredSignatureError", payload |-> [none |-> TRUE]]
         ELSE [err |-> None, payload |-> token.claims]

\* dict.get
Get(payload, k) == IF k \in DOMAIN payload THEN payload[k] ELSE None

\* Optional[timedelta] in seconds: <<>> is None, <<d>> is timedelta(seconds=d).
\* `if expires_delta:` is false for None and for timedelta(0).
Deltas == {<<>>, <<0>>, <<60>>, <<-60>>}

\* create_access_token with its optional expires_delta argument
create_access_token_expires(user_id, email, expires_delta, t) ==
    LET expire == IF expires_delta # <<>> /\ expires_delta[1] # 0
                  THEN t + expires_delta[1]
                  ELSE t + ACCESS_TOKEN_EXPIRE_MINUTES * 60
    IN jwt_encode([sub |-> user_id, email |-> email, exp |-> expire, iat |-> t])

\* create_access_token as every caller invokes it (expires_delta omitted)
create_access_token(user_id, email, t) ==
    create_access_token_expires(user_id, email, <<>>, t)

create_verification_token(user_id, email, purpose, t) ==
    LET expire_delta == IF purpose = "password_reset"
                        THEN PASSWORD_RESET_EXPIRE_HOURS * 3600
                        ELSE EMAIL_VERIFICATION_EXPIRE_HOURS * 3600
    IN jwt_encode([sub |-> user_id, email |-> email, purpose |-> purpose,
                   exp |-> t + expire_delta, iat |-> t])

\* Mutant: the purpose claim is not compared with the expected purpose.
verify_verification_token_any_purpose(token, expected_purpose, t) ==
    LET d == jwt_decode(token, t)
        fail(msg) == [detail |-> msg, user_id |-> None, email |-> None]
    IN IF d.err = "ExpiredSignatureError" THEN fail("Token has expired")
       ELSE IF d.err = "InvalidTokenError" THEN fail("Invalid token")
       ELSE IF Get(d.payload, "sub") = None \/ Get(d.payload, "email") = None
            THEN fail("Invalid token payload")
       ELSE [detail |-> None, user_id |-> d.payload.sub, email |-> d.payload.email]

\* Mutant: a token that carries no purpose claim passes the purpose check.
verify_verification_token_lax(token, expected_purpose, t) ==
    LET d == jwt_decode(token, t)
        fail(msg) == [detail |-> msg, user_id |-> None, email |-> None]
    IN IF d.err = "ExpiredSignatureError" THEN fail("Token has expired")
       ELSE IF d.err = "InvalidTokenError" THEN fail("Invalid token")
       ELSE IF Get(d.payload, "purpose") \notin {expected_purpose, None}
            THEN fail("Invalid token purpose")
       ELSE IF Get(d.payload, "sub") = None \/ Get(d.payload, "email") = None
            THEN fail("Invalid token payload")
       ELSE [detail |-> None, user_id |-> d.payload.sub, email |-> d.payload.email]

\* Result of verify_verification_token: detail = None on success.
verify_verification_token(token, expected_purpose, t) ==
    LET d == jwt_decode(token, t)
        fail(msg) == [detail |-> msg, user_id |-> None, email |-> None]
    IN IF d.err = "ExpiredSignatureError" THEN fail("Token has expired")
       ELSE IF d.err = "InvalidTokenError" THEN fail("Invalid token")
       ELSE IF Get(d.payload, "purpose") # expected_purpose
            THEN fail("Invalid token purpose")
       ELSE IF Get(d.payload, "sub") = None \/ Get(d.payload, "email") = None
            THEN fail("Invalid token payload")
       ELSE [detail |-> None, user_id |-> d.payload.sub, email |-> d.payload.email]

\* Mutant: the claims are read without verifying the signature.
verify_token_unverified(token, t) ==
    LET d == jwt_decode([token EXCEPT !.signed = TRUE], t)
        fail(msg) == [detail |-> msg, user_id |-> None, email |-> None]
    IN IF d.err = "ExpiredSignatureError" THEN fail("Token has expired")
       ELSE IF d.err = "InvalidTokenError" THEN fail("Could not validate credentials")
       ELSE IF Get(d.payload, "sub") = None THEN fail("Could not validate credentials")
       ELSE [detail |-> None, user_id |-> d.payload.sub,
             email |-> Get(d.payload, "email")]

\* Result of verify_token: detail = None on success.
verify_token(token, t) ==
    LET d == jwt_decode(token, t)
        fail(msg) == [detail |-> msg, user_id |-> None, email |-> None]
    IN IF d.err = "ExpiredSignatureError" THEN fail("Token has expired")
       ELSE IF d.err = "InvalidTokenError" THEN fail("Could not validate credentials")
       ELSE IF Get(d.payload, "sub") = None THEN fail("Could not validate credentials")
       ELSE [detail |-> None, user_id |-> d.payload.sub,
             email |-> Get(d.payload, "email")]

(* ------------------------- missing key material ----------------------- *)
\* settings.JWT_PRIVATE_KEY / JWT_PUBLIC_KEY are read at every call and are
\* "" when neither the environment nor certs/*.pem provides a key.  The
\* operators above are the functions with both keys configured; these take
\* the presence of the key as an argument.  An exception no handler catches
\* ends the request in 500 "Internal Server Error".

\* A string that is not a JWS at all (jwt.decode raises DecodeError on it
\* before it looks at the key).
Malformed == [claims |-> [garbage |-> TRUE], signed |-> FALSE]

create_access_token_keys(private_key, user_id, email, t) ==
    IF ~private_key
    THEN [status |-> 500, detail |-> "JWT private key not configured",
          token |-> NoToken]
    ELSE [status |-> 200, detail |-> None,
          token |-> create_access_token(user_id, email, t)]

\* jwt.encode with an empty key raises InvalidKeyError, which nothing catches.
create_verification_token_keys(private_key, user_id, email, purpose, t) ==
    IF ~private_key
    THEN [status |-> 500, detail |-> "Internal Server Error", token |-> NoToken]
    ELSE [status |-> 200, detail |-> None,
          token |-> create_verification_token(user_id, email, purpose, t)]

verify_token_keys(public_key, token, t) ==
    LET v == verify_token(token, t)
    IN IF ~public_key
       THEN [status |-> 500, detail |-> "JWT public key not configured",
             user_id |-> None]
       ELSE [status |-> IF v.detail = None THEN 200 ELSE 401,
             detail |-> v.detail, user_id |-> v.user_id]

\* jwt.decode parses the token first (DecodeError, an InvalidTokenError, is
\* caught: 400) and prepares the key next (InvalidKeyError is not an
\* InvalidTokenError: uncaught).
verify_verification_token_keys(public_key, token, expected_purpose, t) ==
    LET v == verify_verification_token(token, expected_purpose, t)
    IN IF public_key
       THEN [status |-> IF v.detail = None THEN 200 ELSE 400,
             detail |-> v.detail, user_id |-> v.user_id]
       ELSE IF token = Malformed
       THEN [status |-> 400, detail |-> "Invalid token", user_id |-> None]
       ELSE [status |-> 500, detail |-> "Internal Server Error", user_id |-> None]

(* ------------------------------ user store ---------------------------- *)
get_user_by_email(us, email) ==
    IF \E u \in DOMAIN us : us[u].email = email
    THEN CHOOSE u \in DOMAIN us : us[u].email = email
    ELSE NoUser

get_user_by_id(us, user_id) == IF user_id \in DOMAIN us THEN user_id ELSE NoUser

\* Mutant: a token issued before the row's last change is refused.
get_current_user_revoking(us, token, t) ==
    LET td == verify_token(token, t)
    IN IF td.detail # None THEN [detail |-> td.detail, user |-> NoUser]
       ELSE IF UUID(td.user_id) = 0
            THEN [detail |-> "Invalid user ID in token", user |-> NoUser]
       ELSE IF get_user_by_id(us, UUID(td.user_id)) = NoUser
            THEN [detail |-> "User not found", user |-> NoUser]
       ELSE IF token.claims.iat < us[UUID(td.user_id)].updated_at
            THEN [detail |-> "Could not validate credentials", user |-> NoUser]
            ELSE [detail |-> None, user |-> UUID(td.user_id)]

\* get_current_user: detail = None on success.
get_current_user(us, token, t) ==
    LET td == verify_token(token, t)
    IN IF td.detail # None THEN [detail |-> td.detail, user |-> NoUser]
       ELSE IF UUID(td.user_id) = 0
            THEN [detail |-> "Invalid user ID in token", user |-> NoUser]
       ELSE IF get_user_by_id(us, UUID(td.user_id)) = NoUser
            THEN [detail |-> "User not found", user |-> NoUser]
            ELSE [detail |-> None, user |-> UUID(td.user_id)]

(* ------------------------- Ephemeral code store ----------------------- *)
\* TTLCache.expire(time): drop entries whose expiry has been reached.
Expire(cache, t) == SelectSeq(cache, LAMBDA en : t < en.expires)

Without(cache, key) == SelectSeq(cache, LAMBDA en : en.key # key)

\* Mutant: an entry is still live at the instant of its expiry.
Contains_inclusive(cache, key, t) ==
    \E i \in 1..Len(cache) : cache[i].key = key /\ t <= cache[i].expires

\* TTLCache.__contains__: present and not yet expired.
Contains(cache, key, t) ==
    \E i \in 1..Len(cache) : cache[i].key = key /\ t < cache[i].expires

Entry(cache, key) ==
    cache[CHOOSE i \in 1..Len(cache) : cache[i].key = key]

\* TTLCache.__setitem__: expire, evict least recently used while full,
\* then (re)insert as most recently used with a fresh expiry.
\* The entry of a non-empty cache that was stored longest ago.
Oldest(cache) ==
    cache[CHOOSE i \in 1..Len(cache) :
            \A j \in 1..Len(cache) : cache[i].expires <= cache[j].expires]

\* Mutant: when full, the entry stored longest ago is evicted.
TTLCache_setitem_fifo(maxsize, cache, key, value, t) ==
    LET live == Expire(cache, t)
        rest == Without(live, key)
        room == IF Len(rest) = Len(live) /\ Len(live) >= maxsize
                THEN Without(live, Oldest(live).key) ELSE rest
    IN Append(room, [key |-> key, code |-> value.code,
                     user_id |-> value.user_id,
                     expires |-> t + Verification_cache_ttl])

\* __setitem__ of a TTLCache(maxsize, ttl=300)
TTLCache_setitem(maxsize, cache, key, value, t) ==
    LET live == Expire(cache, t)
        rest == Without(live, key)
        room == IF Len(rest) = Len(live) /\ Len(live) >= maxsize
                THEN Tail(live) ELSE rest
    IN Append(room, [key |-> key, code |-> value.code,
                     user_id |-> value.user_id,
                     expires |-> t + Verification_cache_ttl])

SetItem(cache, key, value, t) ==
    TTLCache_setitem(Verification_cache_maxsize, cache, key, value, t)

\* TTLCache.__getitem__ marks the entry as most recently used.
Touch(cache, key) == Append(Without(cache, key), Entry(cache, key))

\* Mutant: the key is the address as given, not lower-cased.
store_verification_code_raw(cache, email, code, user_id, t) ==
    SetItem(cache, email, [code |-> code, user_id |-> user_id], t)

store_verification_code(cache, email, code, user_id, t) ==
    SetItem(cache, lower(email), [code |-> code, user_id |-> user_id], t)

\* Mutant: a matching code is not removed from the cache.
verify_stored_code_keep(cache, email, submitted_code, t) ==
    LET email_lower == lower(email)
    IN IF ~Contains(cache, email_lower, t)
       THEN [detail |-> "Verification code has expired. Please request a new one.",
             user_id |-> None, cache |-> cache]
       ELSE IF Entry(cache, email_lower).code # submitted_code
            THEN [detail |-> "Invalid verification code", user_id |-> None,
                  cache |-> Touch(cache, email_lower)]
            ELSE [detail |-> None,
                  user_id |-> Entry(cache, email_lower).user_id,
                  cache |-> Touch(cache, email_lower)]

\* Mutant: a wrong code burns the entry.
verify_stored_code_burn(cache, email, submitted_code, t) ==
    LET email_lower == lower(email)
    IN IF ~Contains(cache, email_lower, t)
       THEN [detail |-> "Verification code has expired. Please request a new one.",
             user_id |-> None, cache |-> cache]
       ELSE IF Entry(cache, email_lower).code # submitted_code
            THEN [detail |-> "Invalid verification code", user_id |-> None,
                  cache |-> Without(cache, email_lower)]
            ELSE [detail |-> None,
                  user_id |-> Entry(cache, email_lower).user_id,
                  cache |-> Without(cache, email_lower)]

\* verify_stored_code: the outcome and the cache it leaves behind.
verify_stored_code(cache, email, submitted_code, t) ==
    LET email_lower == lower(email)
    IN IF ~Contains(cache, email_lower, t)
       THEN [detail |-> "Verification code has expired. Please request a new one.",
             user_id |-> None, cache |-> cache]
       ELSE IF Entry(cache, email_lower).code # submitted_code
            THEN [detail |-> "Invalid verification code", user_id |-> None,
                  cache |-> Touch(cache, email_lower)]
            ELSE [detail |-> None,
                  user_id |-> Entry(cache, email_lower).user_id,
                  cache |-> Without(cache, email_lower)]

(* ------------------------------ responses ----------------------------- *)
\* What a handler hands back: the HTTP outcome, the row it acted on, the
\* token it issued, the background tasks it queued, and the users table and
\* cache it leaves.
Out(status, detail, us, cache) ==
    [status |-> status, detail |-> detail, user |-> NoUser, issued |-> NoToken,
     tasks |-> <<>>, users |-> us, cache |-> cache]

\* One BackgroundTasks entry: a templated message for an address.
Task(kind, to) == [kind |-> kind, to |-> to]

GenericVerificationMsg ==
    "If this email is registered, a verification code has been sent."
GenericResetMsg ==
    "If this email is registered, a password reset link has been sent."
ExpiredCodeMsg == "Verification code has expired. Please request a new one."
InvalidCodeMsg == "Invalid verification code"

\* A row of the users table.
NewUser(email, hashed, verified, google, t) ==
    [email |-> email, password |-> hashed, email_verified |-> verified,
     google_auth |-> google, updated_at |-> t]

(* ------------------------------- handlers ----------------------------- *)
\* POST /user/create: create_user_service, then code and emails.
create_user(us, cache, email, password, salt, code, t) ==
    IF get_user_by_email(us, email) # NoUser
    THEN Out(409, "A user with this email already exists", us, cache)
    ELSE LET id == Len(us) + 1
         IN [Out(200, None,
                 Append(us, NewUser(email, hash_password(password, salt),
                                    FALSE, FALSE, t)),
                 store_verification_code(cache, email, code, str(id), t))
               EXCEPT !.user = id,
                      !.tasks = <<Task("welcome", email),
                                  Task("email_verification", email)>>]

\* Mutant: the password is not checked.
login_user_no_check(us, cache, email, password, t) ==
    LET user == get_user_by_email(us, email)
    IN IF user = NoUser
       THEN Out(401, "Invalid email or password", us, cache)
       ELSE [Out(200, None, us, cache) EXCEPT
               !.user = user,
               !.issued = create_access_token(str(user), us[user].email, t)]

\* login_user, as called by POST /auth/login and POST /auth/token
login_user(us, cache, email, password, t) ==
    LET user == get_user_by_email(us, email)
    IN IF user = NoUser
       THEN Out(401, "Invalid email or password", us, cache)
       ELSE IF ~verify_password(password, us[user].password)
       THEN Out(401, "Invalid email or password", us, cache)
       ELSE [Out(200, None, us, cache) EXCEPT
               !.user = user,
               !.issued = create_access_token(str(user), us[user].email, t)]

\* Mutant: a code is stored and mailed for verified accounts too.
send_verification_email_always(us, cache, email, verification_code, t) ==
    LET user == get_user_by_email(us, email)
    IN IF user = NoUser
       THEN Out(200, GenericVerificationMsg, us, cache)
       ELSE [Out(200, GenericVerificationMsg, us,
                 store_verification_code(cache, us[user].email,
                                         verification_code, str(user), t))
               EXCEPT !.user = user,
                      !.tasks = <<Task("email_verification", us[user].email)>>]

\* POST /auth/send-verification
send_verification_email(us, cache, email, verification_code, t) ==
    LET user == get_user_by_email(us, email)
    IN IF user = NoUser
       THEN Out(200, GenericVerificationMsg, us, cache)
       ELSE IF us[user].email_verified
       THEN Out(200, "Email is already verified.", us, cache)
       ELSE [Out(200, GenericVerificationMsg, us,
                 store_verification_code(cache, us[user].email,
                                         verification_code, str(user), t))
               EXCEPT !.user = user,
                      !.tasks = <<Task("email_verification", us[user].email)>>]

\* GET /auth/resend-verification (caller authenticated by get_current_user)
resend_verification_email(us, cache, token, verification_code, t) ==
    LET cu == get_current_user(us, token, t)
    IN IF cu.detail # None
       THEN Out(401, cu.detail, us, cache)
       ELSE IF us[cu.user].email_verified
       THEN [Out(200, "Email is already verified.", us, cache) EXCEPT !.user = cu.user]
       ELSE [Out(200, "Verification code has been sent to your email.", us,
                 store_verification_code(cache, us[cu.user].email,
                                         verification_code, str(cu.user), t))
               EXCEPT !.user = cu.user,
                      !.tasks = <<Task("email_verification", us[cu.user].email)>>]

\* GET /auth/me
get_me(us, cache, token, t) ==
    LET cu == get_current_user(us, token, t)
    IN IF cu.detail # None
       THEN Out(401, cu.detail, us, cache)
       ELSE [Out(200, None, us, cache) EXCEPT !.user = cu.user]

\* Mutant: the code is consumed only when the verification succeeds.
verify_user_email_with_code_consume_last(us, cache, email, code, t) ==
    LET sc == verify_stored_code_keep(cache, email, code, t)
        user_id == UUID(sc.user_id)
    IN IF sc.detail # None THEN Out(400, sc.detail, us, sc.cache)
       ELSE IF user_id = 0 THEN Out(400, "Invalid user ID", us, sc.cache)
       ELSE IF get_user_by_id(us, user_id) = NoUser
            THEN Out(404, "User not found", us, sc.cache)
       ELSE IF lower(us[user_id].email) # lower(email)
            THEN Out(400, "Email mismatch", us, sc.cache)
       ELSE IF us[user_id].email_verified
            THEN Out(400, "Email is already verified", us, sc.cache)
       ELSE [Out(200, None,
                 [us EXCEPT ![user_id].email_verified = TRUE,
                            ![user_id].updated_at = t],
                 Without(sc.cache, lower(email)))
               EXCEPT !.user = user_id]

\* verify_user_email_with_code (code channel)
verify_user_email_with_code(us, cache, email, code, t) ==
    LET sc == verify_stored_code(cache, email, code, t)
        user_id == UUID(sc.user_id)
    IN IF sc.detail # None THEN Out(400, sc.detail, us, sc.cache)
       ELSE IF user_id = 0 THEN Out(400, "Invalid user ID", us, sc.cache)
       ELSE IF get_user_by_id(us, user_id) = NoUser
            THEN Out(404, "User not found", us, sc.cache)
       ELSE IF lower(us[user_id].email) # lower(email)
            THEN Out(400, "Email mismatch", us, sc.cache)
       ELSE IF us[user_id].email_verified
            THEN Out(400, "Email is already verified", us, sc.cache)
       ELSE [Out(200, None,
                 [us EXCEPT ![user_id].email_verified = TRUE,
                            ![user_id].updated_at = t],
                 sc.cache)
               EXCEPT !.user = user_id]

\* POST /auth/verify-email.  The handler subscripts the returned User
\* (response["user"]), which raises TypeError after the commit: the caller
\* gets 500 and no notification is queued.
verify_email(us, cache, email, code, t) ==
    LET r == verify_user_email_with_code(us, cache, email, code, t)
    IN IF r.status = 200
       THEN [r EXCEPT !.status = 500, !.detail = "Internal Server Error"]
       ELSE r

\* Mutant: the verified flag is examined before the email comparison.
verify_user_email_flag_first(us, cache, token, t) ==
    LET v == verify_verification_token(token, "email_verification", t)
        user_id == UUID(v.user_id)
    IN IF v.detail # None THEN Out(400, v.detail, us, cache)
       ELSE IF user_id = 0 THEN Out(400, "Invalid user ID in token", us, cache)
       ELSE IF get_user_by_id(us, user_id) = NoUser
            THEN Out(404, "User not found", us, cache)
       ELSE IF us[user_id].email_verified
            THEN Out(400, "Email is already verified", us, cache)
       ELSE IF us[user_id].email # v.email
            THEN Out(400, "Email mismatch", us, cache)
       ELSE [Out(200, None,
                 [us EXCEPT ![user_id].email_verified = TRUE,
                            ![user_id].updated_at = t],
                 cache)
               EXCEPT !.user = user_id]

\* verify_user_email (link channel; no route calls it)
verify_user_email(us, cache, token, t) ==
    LET v == verify_verification_token(token, "email_verification", t)
        user_id == UUID(v.user_id)
    IN IF v.detail # None THEN Out(400, v.detail, us, cache)
       ELSE IF user_id = 0 THEN Out(400, "Invalid user ID in token", us, cache)
       ELSE IF get_user_by_id(us, user_id) = NoUser
            THEN Out(404, "User not found", us, cache)
       ELSE IF us[user_id].email # v.email
            THEN Out(400, "Email mismatch", us, cache)
       ELSE IF us[user_id].email_verified
            THEN Out(400, "Email is already verified", us, cache)
       ELSE [Out(200, None,
                 [us EXCEPT ![user_id].email_verified = TRUE,
                            ![user_id].updated_at = t],
                 cache)
               EXCEPT !.user = user_id]

\* Mutant: an unregistered address is answered with 404.
forgot_password_reveal(us, cache, email, t) ==
    LET user == get_user_by_email(us, email)
    IN IF user = NoUser
       THEN Out(404, "User not found", us, cache)
       ELSE [Out(200, GenericResetMsg, us, cache) EXCEPT
               !.user = user,
               !.issued = create_verification_token(str(user), us[user].email,
                                                    "password_reset", t),
               !.tasks = <<Task("password_reset", us[user].email)>>]

\* POST /auth/forgot-password
forgot_password(us, cache, email, t) ==
    LET user == get_user_by_email(us, email)
    IN IF user = NoUser
       THEN Out(200, GenericResetMsg, us, cache)
       ELSE [Out(200, GenericResetMsg, us, cache) EXCEPT
               !.user = user,
               !.issued = create_verification_token(str(user), us[user].email,
                                                    "password_reset", t),
               !.tasks = <<Task("password_reset", us[user].email)>>]

\* Mutant: the new hash is written before the email comparison.
reset_user_password_write_first(us, cache, token, new_password, salt, t) ==
    LET v == verify_verification_token(token, "password_reset", t)
        user_id == UUID(v.user_id)
        written == [us EXCEPT ![user_id].password = hash_password(new_password, salt),
                              ![user_id].updated_at = t]
    IN IF v.detail # None THEN Out(400, v.detail, us, cache)
       ELSE IF user_id = 0 THEN Out(400, "Invalid user ID in token", us, cache)
       ELSE IF get_user_by_id(us, user_id) = NoUser
            THEN Out(404, "User not found", us, cache)
       ELSE IF us[user_id].email # v.email
            THEN Out(400, "Email mismatch", written, cache)
       ELSE [Out(200, None, written, cache) EXCEPT !.user = user_id]

\* Mutant: a successful reset stamps the row but keeps the old hash.
reset_user_password_keep_hash(us, cache, token, new_password, salt, t) ==
    LET v == verify_verification_token(token, "password_reset", t)
        user_id == UUID(v.user_id)
    IN IF v.detail # None THEN Out(400, v.detail, us, cache)
       ELSE IF user_id = 0 THEN Out(400, "Invalid user ID in token", us, cache)
       ELSE IF get_user_by_id(us, user_id) = NoUser
            THEN Out(404, "User not found", us, cache)
       ELSE IF us[user_id].email # v.email
            THEN Out(400, "Email mismatch", us, cache)
       ELSE [Out(200, None, [us EXCEPT ![user_id].updated_at = t], cache)
               EXCEPT !.user = user_id]

\* Mutant: a reset also marks the address as unverified.
reset_user_password_unverify(us, cache, token, new_password, salt, t) ==
    LET v == verify_verification_token(token, "password_reset", t)
        user_id == UUID(v.user_id)
    IN IF v.detail # None THEN Out(400, v.detail, us, cache)
       ELSE IF user_id = 0 THEN Out(400, "Invalid user ID in token", us, cache)
       ELSE IF get_user_by_id(us, user_id) = NoUser
            THEN Out(404, "User not found", us, cache)
       ELSE IF us[user_id].email # v.email
            THEN Out(400, "Email mismatch", us, cache)
       ELSE [Out(200, None,
                 [us EXCEPT ![user_id].password = hash_password(new_password, salt),
                            ![user_id].email_verified = FALSE,
                            ![user_id].updated_at = t],
                 cache)
               EXCEPT !.user = user_id]

\* reset_user_password
reset_user_password(us, cache, token, new_password, salt, t) ==
    LET v == verify_verification_token(token, "password_reset", t)
        user_id == UUID(v.user_id)
    IN IF v.detail # None THEN Out(400, v.detail, us, cache)
       ELSE IF user_id = 0 THEN Out(400, "Invalid user ID in token", us, cache)
       ELSE IF get_user_by_id(us, user_id) = NoUser
            THEN Out(404, "User not found", us, cache)
       ELSE IF us[user_id].email # v.email
            THEN Out(400, "Email mismatch", us, cache)
       ELSE [Out(200, None,
                 [us EXCEPT ![user_id].password = hash_password(new_password, salt),
                            ![user_id].updated_at = t],
                 cache)
               EXCEPT !.user = user_id]

\* POST /auth/reset-password
reset_password(us, cache, token, new_password, salt, t) ==
    LET r == reset_user_password(us, cache, token, new_password, salt, t)
    IN IF r.status = 200
       THEN [r EXCEPT !.detail = "Password has been reset successfully.",
                      !.tasks = <<Task("password_change_notice",
                                       r.users[r.user].email)>>]
       ELSE r

\* What Google's verifier answers for an id_token: rejected, or the claims
\* of a genuine token (which may lack an email).
Assertions ==
    {[ok |-> FALSE, email |-> None]} \cup
    {[ok |-> TRUE, email |-> e] : e \in Emails \cup {None}}

\* google_callback_login (POST /auth/google/login)
google_callback_login(us, cache, assertion, t) ==
    LET user == get_user_by_email(us, assertion.email)
    IN IF ~assertion.ok \/ assertion.email = None
       THEN Out(500, "Internal Server Error", us, cache)
       ELSE IF user = NoUser
       THEN Out(401, "Invalid email or password", us, cache)
       ELSE [Out(200, None, us, cache) EXCEPT
               !.user = user,
               !.issued = create_access_token(str(user), us[user].email, t)]

\* Mutant: the federated account is created unverified.
google_callback_signup_unverified(us, cache, assertion, salt, t) ==
    LET id == Len(us) + 1
    IN IF ~assertion.ok
       THEN Out(401, "Invalid Google ID token", us, cache)
       ELSE IF assertion.email = None
       THEN Out(400, "Email not provided by Google", us, cache)
       ELSE IF get_user_by_email(us, assertion.email) # NoUser
       THEN Out(409, "User with this email already exists", us, cache)
       ELSE [Out(201, None,
                 Append(us, NewUser(assertion.email, hash_password("", salt),
                                    FALSE, TRUE, t)),
                 cache)
               EXCEPT !.user = id,
                      !.issued = create_access_token(str(id), assertion.email, t)]

\* google_callback_signup (POST /auth/google/signup)
google_callback_signup(us, cache, assertion, salt, t) ==
    LET id == Len(us) + 1
    IN IF ~assertion.ok
       THEN Out(401, "Invalid Google ID token", us, cache)
       ELSE IF assertion.email = None
       THEN Out(400, "Email not provided by Google", us, cache)
       ELSE IF get_user_by_email(us, assertion.email) # NoUser
       THEN Out(409, "User with this email already exists", us, cache)
       ELSE [Out(201, None,
                 Append(us, NewUser(assertion.email, hash_password("", salt),
                                    TRUE, TRUE, t)),
                 cache)
               EXCEPT !.user = id,
                      !.issued = create_access_token(str(id), assertion.email, t)]

(* --------------------------- notification dispatch ------------------- *)
\* What can happen to one queued email: delivered, the template fails to
\* render, Mailjet answers another status than 200, or the send raises.
MailOutcomes == {"sent", "render_error", "not_200", "send_exception"}

\* EmailService._render_template: every exception is caught and an error
\* text is returned in place of the HTML.
_render_template(outcome) ==
    IF outcome = "render_error" THEN "Error rendering template" ELSE "html"

\* EmailService._send_email_async: one call to mailjet.send.create inside
\* try / except Exception; the result is only logged.
_send_email_async(task, outcome) ==
    [raised |-> FALSE,
     sends |-> 1,
     html |-> _render_template(outcome),
     log |-> IF outcome = "sent" THEN "info"
             ELSE IF outcome = "render_error" THEN "error: template"
             ELSE IF outcome = "not_200" THEN "error: status"
             ELSE "error: exception"]

\* Mutant: the email is sent inside the request and a failure fails it.
after_response_inline(r, outcome) ==
    LET runs == [i \in 1..Len(r.tasks) |-> _send_email_async(r.tasks[i], outcome)]
    IN [status |-> IF r.tasks # <<>> /\ outcome # "sent" THEN 500 ELSE r.status,
        detail |-> r.detail, users |-> r.users,
        cache |-> r.cache, runs |-> runs]

\* EmailService._add_task / BackgroundTasks: the response of the handler is
\* sent first, then each queued task runs once.
after_response(r, outcome) ==
    LET runs == [i \in 1..Len(r.tasks) |-> _send_email_async(r.tasks[i], outcome)]
    IN [status |-> r.status, detail |-> r.detail, users |-> r.users,
        cache |-> r.cache, runs |-> runs]

(* ------------------------- tokens held by clients --------------------- *)
\* Session tokens returned by login / federated login for an account.
SessionTokens(us) ==
    {create_access_token(str(u), us[u].email, i) : u \in DOMAIN us, i \in IssueTimes}

\* Purpose tokens made by create_verification_token for an account.
PurposeTokens(us) ==
    UNION {{create_verification_token(str(u), us[u].email, p, i) :
                p \in Purposes, i \in IssueTimes} : u \in DOMAIN us}

Forge(tok) == [tok EXCEPT !.signed = FALSE]

\* Issued tokens, and imitations of them whose signature does not verify.
Presentable(us, t) ==
    LET issued == {tok \in SessionTokens(us) \cup PurposeTokens(us) :
                      tok.claims.iat <= t}
    IN issued \cup {Forge(tok) : tok \in issued}

(* -------------------------------- Init -------------------------------- *)
Init ==
    /\ users = <<>>
    /\ Verification_cache = <<>>
    /\ now = 0
    /\ consumed = {}
    /\ pending = {}

(* ------------------------------- actions ------------------------------ *)
\* A handler's effect on the server: the table and the cache it leaves.
Apply(r) ==
    /\ users' = r.users
    /\ Verification_cache' = r.cache
    /\ UNCHANGED <<now, pending>>


\* Time passes between requests.
Tick ==
    /\ \E t \in TimePoints : t > now /\ now' = t
    /\ UNCHANGED <<users, Verification_cache, consumed, pending>>

POST_user_create(email, password, salt, code) ==
    LET r == create_user(users, Verification_cache, email, password, salt, code, now)
    IN /\ r.status = 200 => Len(users) < MaxUsers
       /\ Apply(r)
       /\ consumed' = IF r.status = 200 THEN consumed \ {lower(email)} ELSE consumed

POST_login(email, password) ==
    /\ Apply(login_user(users, Verification_cache, email, password, now))
    /\ UNCHANGED consumed

POST_send_verification(email, code) ==
    LET r == send_verification_email(users, Verification_cache, email, code, now)
    IN /\ Apply(r)
       /\ consumed' = IF r.tasks # <<>> THEN consumed \ {lower(email)} ELSE consumed

GET_resend_verification(token, code) ==
    LET r == resend_verification_email(users, Verification_cache, token, code, now)
    IN /\ Apply(r)
       /\ consumed' = IF r.tasks # <<>>
                      THEN consumed \ {lower(users[r.user].email)} ELSE consumed

GET_me(token) ==
    /\ Apply(get_me(users, Verification_cache, token, now))
    /\ UNCHANGED consumed

POST_verify_email(email, code) ==
    LET r == verify_email(users, Verification_cache, email, code, now)
        sc == verify_stored_code(Verification_cache, email, code, now)
    IN /\ Apply(r)
       /\ consumed' = IF sc.detail = None THEN consumed \cup {lower(email)}
                      ELSE consumed

Call_verify_user_email(token) ==
    /\ Apply(verify_user_email(users, Verification_cache, token, now))
    /\ UNCHANGED consumed

POST_forgot_password(email) ==
    /\ Apply(forgot_password(users, Verification_cache, email, now))
    /\ UNCHANGED consumed

POST_reset_password(token, new_password, salt) ==
    /\ Apply(reset_password(users, Verification_cache, token, new_password, salt, now))
    /\ UNCHANGED consumed

POST_google_login(assertion) ==
    /\ Apply(google_callback_login(users, Verification_cache, assertion, now))
    /\ UNCHANGED consumed

POST_google_signup(assertion, salt) ==
    LET r == google_callback_signup(users, Verification_cache, assertion, salt, now)
    IN /\ r.status = 201 => Len(users) < MaxUsers
       /\ Apply(r)
       /\ UNCHANGED consumed

Next ==
    \/ Tick
    \/ \E e \in Emails, p \in Passwords, s \in Salts, c \in GeneratedCodes :
           POST_user_create(e, p, s, c)
    \/ \E e \in Emails, p \in Passwords : POST_login(e, p)
    \/ \E e \in Emails, c \in GeneratedCodes : POST_send_verification(e, c)
    \/ \E tok \in Presentable(users, now), c \in GeneratedCodes :
           GET_resend_verification(tok, c)
    \/ \E tok \in Presentable(users, now) : GET_me(tok)
    \/ \E e \in Emails, c \in Codes : POST_verify_email(e, c)
    \/ \E tok \in Presentable(users, now) : Call_verify_user_email(tok)
    \/ \E e \in Emails : POST_forgot_password(e)
    \/ \E tok \in Presentable(users, now), p \in Passwords, s \in Salts :
           POST_reset_password(tok, p, s)
    \/ \E a \in Assertions : POST_google_login(a)
    \/ \E a \in Assertions, s \in Salts : POST_google_signup(a, s)

Spec == Init /\ [][Next]_vars

(* ----------------------- interleaved account creation ----------------- *)
\* signup_user and google_callback_signup suspend at `await db.commit()`
\* after they have built their row; other requests run in between.

\* db.add(row); await db.commit() under the unique index on users.email
db_commit(us, row) ==
    IF \E u \in DOMAIN us : us[u].email = row.email
    THEN [err |-> "IntegrityError", users |-> us]
    ELSE [err |-> None, users |-> Append(us, row)]

\* signup_user from db.add on
signup_user_commit(us, cache, row, t) ==
    LET c == db_commit(us, row)
    IN IF c.err # None
       THEN Out(409, "A user with this email already exists", us, cache)
       ELSE [Out(200, None, c.users, cache) EXCEPT !.user = Len(c.users)]

\* Mutant: the IntegrityError of the commit is not caught.
google_signup_commit_uncaught(us, cache, row, t) ==
    LET c == db_commit(us, row)
        id == Len(c.users)
    IN IF c.err # None
       THEN Out(500, "Internal Server Error", us, cache)
       ELSE [Out(201, None, c.users, cache) EXCEPT
               !.user = id,
               !.issued = create_access_token(str(id), row.email, t)]

\* google_callback_signup from db.add on
google_signup_commit(us, cache, row, t) ==
    LET c == db_commit(us, row)
        id == Len(c.users)
    IN IF c.err # None
       THEN Out(409, "A user with this email already exists", us, cache)
       ELSE [Out(201, None, c.users, cache) EXCEPT
               !.user = id,
               !.issued = create_access_token(str(id), row.email, t)]

\* What the suspended request answers when its commit runs on table us.
commit_of(us, cache, req, t) ==
    IF req.kind = "google"
    THEN google_signup_commit(us, cache, req.row, t)
    ELSE signup_user_commit(us, cache, req.row, t)

FreeSlots == (1..MaxInFlight) \ {req.rid : req \in pending}

\* signup_user up to its commit: no lookup, the row is built and added.
signup_user_begin(email, password, salt) ==
    /\ FreeSlots # {}
    /\ pending' = pending \cup
         {[rid |-> CHOOSE i \in FreeSlots : \A j \in FreeSlots : i <= j,
           kind |-> "signup_user",
           row |-> NewUser(email, hash_password(password, salt), FALSE, FALSE, now)]}
    /\ UNCHANGED <<users, Verification_cache, now, consumed>>

\* google_callback_signup up to its commit: verifier, email claim, lookup.
google_signup_begin(assertion, salt) ==
    /\ FreeSlots # {}
    /\ IF assertion.ok /\ assertion.email # None
          /\ get_user_by_email(users, assertion.email) = NoUser
       THEN pending' = pending \cup
              {[rid |-> CHOOSE i \in FreeSlots : \A j \in FreeSlots : i <= j,
                kind |-> "google",
                row |-> NewUser(assertion.email, hash_password("", salt),
                                TRUE, TRUE, now)]}
       ELSE UNCHANGED pending
    /\ UNCHANGED <<users, Verification_cache, now, consumed>>

\* The commit of one suspended creation, and the rest of its handler.
creation_commit(req) ==
    LET r == commit_of(users, Verification_cache, req, now)
    IN /\ r.status \in {200, 201} => Len(users) < MaxRaceRows
       /\ users' = r.users
       /\ pending' = pending \ {req}
       /\ UNCHANGED <<Verification_cache, now, consumed>>

RaceNext ==
    \/ \E e \in Emails, p \in Passwords, s \in Salts : signup_user_begin(e, p, s)
    \/ \E a \in Assertions, s \in Salts : google_signup_begin(a, s)
    \/ \E req \in pending : creation_commit(req)

RaceSpec == Init /\ [][RaceNext]_vars

(* ============================== properties ============================ *)
\* Tokens some request has issued by now.
IssuedSession == {tok \in SessionTokens(users) : tok.claims.iat <= now}
IssuedPurpose == {tok \in PurposeTokens(users) : tok.claims.iat <= now}
Later == {t \in TimePoints : t >= now}
Entries(cache) == {cache[i] : i \in 1..Len(cache)}

\* C1: a stored code is single-use.  A verify_stored_code call succeeds only
\* for a key whose code has not been used since it was last stored; it returns
\* the user id stored with the code and removes the entry, so that from then
\* on, until the next store for that key, every call for the key (any code,
\* any letter case, any later time) fails with the expired / not found error.
C1_SingleUse ==
    /\ \A e \in Emails, c \in Codes :
         LET r == verify_stored_code(Verification_cache, e, c, now)
         IN r.detail = None =>
              /\ lower(e) \notin consumed
              /\ \E en \in Entries(Verification_cache) :
                    en.key = lower(e) /\ en.code = c /\ en.user_id = r.user_id
              /\ \A e2 \in Emails, c2 \in Codes, t2 \in Later :
                    lower(e2) = lower(e) =>
                      verify_stored_code(r.cache, e2, c2, t2).detail = ExpiredCodeMsg
    /\ \A e \in Emails, c \in Codes :
         lower(e) \in consumed =>
           verify_stored_code(Verification_cache, e, c, now).detail = ExpiredCodeMsg

\* C1 witness: a code has been used and not replaced since.
C1_Witness == consumed # {}

\* C2: a wrong code leaves the store's contents as they were (same keys,
\* codes, user ids and expiry times), and the right code still succeeds
\* afterwards at every instant before the entry's expiry.
C2_MismatchKeepsEntry ==
    \A e \in Emails, x \in Codes :
      LET r == verify_stored_code(Verification_cache, e, x, now)
          en == Entry(Verification_cache, lower(e))
      IN r.detail = InvalidCodeMsg =>
           /\ Entries(r.cache) = Entries(Verification_cache)
           /\ Len(r.cache) = Len(Verification_cache)
           /\ \A t \in Later :
                t < en.expires =>
                  LET again == verify_stored_code(r.cache, e, en.code, t)
                  IN again.detail = None /\ again.user_id = en.user_id

\* C2 witness: a live entry whose code differs from the submitted one.
C2_Witness ==
    \E e \in Emails, x \in Codes :
      /\ verify_stored_code(Verification_cache, e, x, now).detail = InvalidCodeMsg
      /\ Len(Verification_cache) > 0

\* C3 as stated: a purpose token checked against the other purpose always
\* fails with the wrong-purpose error.
C3_AsStated ==
    \A tok \in IssuedPurpose, q \in Purposes :
      q # tok.claims.purpose =>
        verify_verification_token(tok, q, now).detail = "Invalid token purpose"

\* C3 amended: a purpose token checked against the other purpose never yields
\* (user_id, email): it fails with the wrong-purpose error while unexpired and
\* with the token-expired error once its expiry has passed; and neither
\* verify_user_email nor reset_user_password changes a row when given a token
\* of the other purpose.
C3_PurposeBound ==
    \A tok \in IssuedPurpose, q \in Purposes :
      q # tok.claims.purpose =>
        /\ verify_verification_token(tok, q, now).detail =
             IF now < tok.claims.exp THEN "Invalid token purpose"
             ELSE "Token has expired"
        /\ q = "email_verification" =>
             verify_user_email(users, Verification_cache, tok, now).users = users
        /\ q = "password_reset" =>
             \A p \in Passwords, s \in Salts :
               reset_user_password(users, Verification_cache, tok, p, s, now).users
                 = users

\* C3 witness: an unexpired purpose token exists for an account.
C3_Witness ==
    \E tok \in IssuedPurpose :
      /\ tok.claims.purpose = "password_reset"
      /\ now < tok.claims.exp
      /\ verify_verification_token(tok, "password_reset", now).detail = None

\* C4: a session token is rejected by purpose-token validation for every
\* expected purpose, so verify_user_email and reset_user_password fail with
\* 400 and leave the users table unchanged when given one.
C4_SessionNotPurpose ==
    \A tok \in IssuedSession :
      /\ \A q \in Purposes :
           verify_verification_token(tok, q, now).detail
             \in {"Invalid token purpose", "Token has expired"}
      /\ LET r == verify_user_email(users, Verification_cache, tok, now)
         IN r.status = 400 /\ r.users = users
      /\ \A p \in Passwords, s \in Salts :
           LET r == reset_password(users, Verification_cache, tok, p, s, now)
           IN r.status = 400 /\ r.users = users /\ r.tasks = <<>>

\* C4 witness: a session token that authenticates its user right now.
C4_Witness ==
    \E tok \in IssuedSession :
      get_current_user(users, tok, now).detail = None

\* C5 as stated: no purpose token is accepted by session-token verification.
C5_AsStated ==
    \A tok \in IssuedPurpose :
      /\ verify_token(tok, now).detail # None
      /\ get_current_user(users, tok, now).detail # None

\* C6 as stated: once reset_user_password has succeeded with a token, a
\* later call presenting the same token fails and leaves the secret unchanged.
C6_AsStated ==
    \A tok \in IssuedPurpose, p1 \in Passwords, p2 \in Passwords, s \in Salts :
      LET first == reset_user_password(users, Verification_cache, tok, p1, s, now)
          second == reset_user_password(first.users, first.cache, tok, p2, s, now)
      IN first.status = 200 =>
           second.status # 200 /\ second.users = first.users

\* C7: login_user issues a session token exactly when an account has the
\* given email and the submitted password matches its stored hash; the token
\* is a session token for that account; otherwise it answers 401 with the
\* same detail whether the account is absent or the password is wrong, and
\* issues nothing.  It never changes the users table or the cache.
C7_Login ==
    \A e \in Emails, p \in Passwords :
      LET r == login_user(users, Verification_cache, e, p, now)
          ok == \E u \in DOMAIN users :
                   /\ users[u].email = e
                   /\ bcrypt(p, users[u].password.salt) = users[u].password
      IN /\ r.users = users /\ r.cache = Verification_cache
         /\ ok => /\ r.status = 200
                  /\ users[r.user].email = e
                  /\ r.issued = create_access_token(str(r.user), e, now)
         /\ ~ok => /\ r.status = 401
                   /\ r.detail = "Invalid email or password"
                   /\ r.issued = NoToken
                   /\ r.user = NoUser

\* C7 witness: an account for which one password logs in and another is
\* refused, while some other address has no account.
C7_Witness ==
    \E e \in Emails, p1 \in Passwords, p2 \in Passwords, e2 \in Emails :
      /\ login_user(users, Verification_cache, e, p1, now).status = 200
      /\ login_user(users, Verification_cache, e, p2, now).status = 401
      /\ get_user_by_email(users, e) # NoUser
      /\ get_user_by_email(users, e2) = NoUser

\* C8 as stated: right after google_callback_signup created an account, no
\* submitted password, the empty string included, logs into it.
C8_AsStated ==
    \A a \in Assertions, s \in Salts, p \in Passwords :
      LET made == google_callback_signup(users, Verification_cache, a, s, now)
      IN (made.status = 201 /\ Len(users) < MaxUsers) =>
           login_user(made.users, made.cache, a.email, p, now).status = 401

\* C9 as stated: POST /send-verification answers with the same status and
\* message for every address.
C9_AsStated ==
    \A e \in Emails, c \in Codes :
      LET r == send_verification_email(users, Verification_cache, e, c, now)
      IN r.status = 200 /\ r.detail = GenericVerificationMsg

\* C10: send-verification and resend store a code and queue the verification
\* email only for an existing unverified account, under that account's
\* lower-cased address and with that account's id; for an unregistered
\* address, a verified account or an unauthenticated resend they leave the
\* cache as it was and queue nothing.  Neither touches the users table.
C10_SendFrame ==
    /\ \A e \in Emails, c \in Codes :
         LET r == send_verification_email(users, Verification_cache, e, c, now)
             u == get_user_by_email(users, e)
             eligible == u # NoUser /\ ~users[u].email_verified
         IN /\ r.users = users
            /\ ~eligible => r.cache = Verification_cache /\ r.tasks = <<>>
            /\ eligible =>
                 /\ r.tasks = <<Task("email_verification", users[u].email)>>
                 /\ Contains(r.cache, lower(e), now)
                 /\ Entry(r.cache, lower(e)).user_id = str(u)
                 /\ Entry(r.cache, lower(e)).code = c
    /\ \A tok \in Presentable(users, now), c \in Codes :
         LET r == resend_verification_email(users, Verification_cache, tok, c, now)
             cu == get_current_user(users, tok, now)
             eligible == cu.detail = None /\ ~users[cu.user].email_verified
         IN /\ r.users = users
            /\ ~eligible => r.cache = Verification_cache /\ r.tasks = <<>>
            /\ eligible =>
                 /\ r.tasks = <<Task("email_verification", users[cu.user].email)>>
                 /\ Contains(r.cache, lower(users[cu.user].email), now)
                 /\ Entry(r.cache, lower(users[cu.user].email)).user_id = str(cu.user)

\* C10 witness: a verified account exists while the cache still holds a code.
C10_Witness ==
    /\ \E u \in DOMAIN users : users[u].email_verified /\ ~users[u].google_auth
    /\ Len(Verification_cache) > 0

\* Arguments of the service functions beyond what the routes produce today:
\* well-signed purpose tokens and stored codes naming any row id and any
\* address (a row or an address that is not, or no longer, in the table).
RowIds == {UUIDs[i] : i \in 1..(MaxUsers + 1)}
TokenInputs ==
    {create_verification_token(id, e, p, i) :
        id \in RowIds, e \in Emails, p \in Purposes, i \in {j \in IssueTimes : j <= now}}

C12_AsStated ==
    \A e \in Emails, c \in Codes :
      LET r == verify_email(users, Verification_cache, e, c, now)
      IN (\E u \in DOMAIN users :
             ~users[u].email_verified /\ r.users[u].email_verified) =>
           /\ r.status = 200
           /\ r.tasks = <<Task("email_verified_notice", r.users[r.user].email)>>

\* Instants at which a token may be presented: now or later, among them the
\* expiry instants of session tokens and of email_verification tokens.
Horizon ==
    {t \in TimePoints \cup {ACCESS_TOKEN_EXPIRE_MINUTES * 60,
                             EMAIL_VERIFICATION_EXPIRE_HOURS * 3600} : t >= now}

\* C13 as stated: reset-password given an email_verification token fails
\* with the wrong-purpose error, at whatever instant it is presented.
C13_AsStated ==
    \A tok \in IssuedPurpose, p \in Passwords, s \in Salts, t \in Horizon :
      tok.claims.purpose = "email_verification" =>
        reset_password(users, Verification_cache, tok, p, s, t).detail
          = "Invalid token purpose"

\* C13 amended: a failing reset-password changes nothing.  reset_password
\* answers 400 "Invalid token" for a token whose signature does not verify,
\* else 400 "Token has expired" once the token's expiry has passed, else 400
\* "Invalid token purpose" for an (unexpired) email_verification token, else
\* 404 "User not found" when the subject has no row, else 400 "Email
\* mismatch" when the token's email differs from the row's; and whenever it
\* fails, every row (hash and updated_at included) and the cache are as
\* before and no "password changed" notice is queued.
C13_FailedResetFrame ==
    \A tok \in TokenInputs \cup {Forge(x) : x \in TokenInputs} \cup IssuedSession,
       p \in Passwords, s \in Salts, t \in Horizon :
      LET r == reset_password(users, Verification_cache, tok, p, s, t)
          id == UUID(tok.claims.sub)
          expect ==
            IF ~tok.signed THEN <<400, "Invalid token">>
            ELSE IF t >= tok.claims.exp THEN <<400, "Token has expired">>
            ELSE IF Get(tok.claims, "purpose") # "password_reset"
                 THEN <<400, "Invalid token purpose">>
            ELSE IF id \notin DOMAIN users THEN <<404, "User not found">>
            ELSE IF users[id].email # tok.claims.email
                 THEN <<400, "Email mismatch">>
            ELSE <<200, "Password has been reset successfully.">>
      IN /\ <<r.status, r.detail>> = expect
         /\ r.status # 200 =>
              /\ r.users = users
              /\ r.cache = Verification_cache
              /\ r.tasks = <<>>

\* C13 witness: an account's password_reset token is presented after its
\* expiry and refused, and its still unexpired email_verification token is
\* refused for its purpose.
C13_Witness ==
    /\ \E tok \in IssuedPurpose, p \in Passwords, s \in Salts :
         /\ tok.claims.purpose = "password_reset"
         /\ reset_password(users, Verification_cache, tok, p, s, now).detail
              = "Token has expired"
    /\ \E tok \in IssuedPurpose, p \in Passwords, s \in Salts :
         reset_password(users, Verification_cache, tok, p, s, now).detail
           = "Invalid token purpose"

\* The users table as it is, and as it would be with one more row.
Tables ==
    {users} \cup
    {Append(users, NewUser(e, hash_password(p, s), FALSE, FALSE, now)) :
        e \in {x \in Emails : get_user_by_email(users, x) = NoUser},
        p \in Passwords, s \in Salts}

\* C14: reset-password with an unexpired password_reset token bound to the
\* current email of row U answers 200, replaces U's hash by the hash of the
\* new password and stamps U's updated_at, and changes no other field, no
\* other row and no cache entry; afterwards login_user with U's email
\* succeeds for U with the new password and is refused with every other
\* password; the "password changed" notice is queued for U's address, and
\* only together with the persisted new hash.
C14_ResetSucceeds ==
    /\ \A us \in Tables,
          tok \in {x \in TokenInputs : x.claims.purpose = "password_reset"},
          p \in Passwords, s \in Salts, t \in Horizon :
         LET r == reset_password(us, Verification_cache, tok, p, s, t)
             id == UUID(tok.claims.sub)
         IN (/\ t < tok.claims.exp
             /\ id \in DOMAIN us
             /\ us[id].email = tok.claims.email) =>
              /\ r.status = 200
              /\ r.users = [us EXCEPT ![id].password = hash_password(p, s),
                                      ![id].updated_at = t]
              /\ r.cache = Verification_cache
              /\ r.tasks = <<Task("password_change_notice", us[id].email)>>
              /\ LET l == login_user(r.users, r.cache, us[id].email, p, t)
                 IN l.status = 200 /\ l.user = id
              /\ \A q \in Passwords \ {p} :
                   login_user(r.users, r.cache, us[id].email, q, t).status = 401
    /\ \A tok \in TokenInputs, p \in Passwords, s \in Salts, t \in Horizon :
         LET r == reset_password(users, Verification_cache, tok, p, s, t)
         IN r.tasks # <<>> =>
              /\ r.status = 200
              /\ verify_password(p, r.users[r.user].password)

\* C14 witness: an account whose unexpired reset token is accepted now with
\* a password that does not log in yet.
C14_Witness ==
    \E tok \in IssuedPurpose, p \in Passwords, s \in Salts :
      /\ reset_password(users, Verification_cache, tok, p, s, now).status = 200
      /\ login_user(users, Verification_cache, tok.claims.email, p, now).status = 401

\* C15: POST /forgot-password answers 200 with the same message for every
\* address and changes neither the users table nor the cache; it makes a
\* password_reset token (for the account's id and email, issued now) and
\* queues the reset-link email to the account's address exactly when an
\* account has the submitted email.
C15_ForgotPassword ==
    \A e \in Emails :
      LET r == forgot_password(users, Verification_cache, e, now)
          u == get_user_by_email(users, e)
      IN /\ r.status = 200 /\ r.detail = GenericResetMsg
         /\ r.users = users /\ r.cache = Verification_cache
         /\ u = NoUser => r.issued = NoToken /\ r.tasks = <<>>
         /\ u # NoUser =>
              /\ r.issued = create_verification_token(str(u), users[u].email,
                                                      "password_reset", now)
              /\ r.tasks = <<Task("password_reset", users[u].email)>>

\* C15 witness: one address has an account and another has none, and the
\* two requests differ in the token made.
C15_Witness ==
    \E e1 \in Emails, e2 \in Emails :
      /\ get_user_by_email(users, e1) # NoUser
      /\ get_user_by_email(users, e2) = NoUser
      /\ forgot_password(users, Verification_cache, e1, now).issued # NoToken
      /\ forgot_password(users, Verification_cache, e2, now).issued = NoToken

\* C16 as stated: google_callback_login never changes the users table; it
\* issues a session token for the existing account that has the asserted
\* email, answers 401 "Invalid email or password" when no account has it,
\* and answers a rejected assertion with a client error (4xx) and no token.
C16_AsStated ==
    \A a \in Assertions :
      LET r == google_callback_login(users, Verification_cache, a, now)
          u == get_user_by_email(users, a.email)
      IN /\ r.users = users
         /\ (a.ok /\ a.email # None /\ u # NoUser) =>
              /\ r.status = 200
              /\ r.issued = create_access_token(str(u), users[u].email, now)
         /\ (a.ok /\ a.email # None /\ u = NoUser) =>
              /\ r.status = 401 /\ r.detail = "Invalid email or password"
              /\ r.issued = NoToken
         /\ ~a.ok => r.status \in 400..499 /\ r.issued = NoToken

\* C17: google_callback_signup answers 401 for a rejected assertion and 400
\* for one without an email, 409 when a row already has the asserted email,
\* and in these cases creates nothing and issues nothing; otherwise it adds
\* exactly one row, with the asserted email, email_verified and google_auth
\* set, leaves the other rows and the cache as they were, and returns a
\* session token whose subject is the new row's id.
C17_FederatedSignup ==
    \A a \in Assertions, s \in Salts :
      LET r == google_callback_signup(users, Verification_cache, a, s, now)
          new == Len(users) + 1
      IN /\ r.cache = Verification_cache
         /\ IF ~a.ok THEN r.status = 401
            ELSE IF a.email = None THEN r.status = 400
            ELSE IF \E u \in DOMAIN users : users[u].email = a.email
                 THEN r.status = 409
            ELSE r.status = 201
         /\ r.status # 201 => r.users = users /\ r.issued = NoToken
         /\ r.status = 201 =>
              /\ Len(r.users) = new
              /\ SubSeq(r.users, 1, Len(users)) = users
              /\ r.users[new].email = a.email
              /\ r.users[new].email_verified
              /\ r.users[new].google_auth
              /\ r.issued.signed
              /\ r.issued.claims.sub = str(new)
              /\ r.issued.claims.email = a.email
              /\ verify_token(r.issued, now).user_id = str(new)

\* C17 witness: a federated account has been created, and a second signup
\* with its email is now refused with 409.
C17_Witness ==
    \E u \in DOMAIN users, s \in Salts :
      /\ users[u].google_auth /\ users[u].email_verified
      /\ google_callback_signup(users, Verification_cache,
                                [ok |-> TRUE, email |-> users[u].email], s, now).status
           = 409

\* C18: however two creations with the same email interleave, no two rows
\* ever share an email, and a creation whose commit finds the email taken
\* answers 409, adds no row and issues no session token.
C18_RaceUnique ==
    /\ \A u \in DOMAIN users, v \in DOMAIN users :
         users[u].email = users[v].email => u = v
    /\ \A req \in pending :
         LET r == commit_of(users, Verification_cache, req, now)
         IN IF \E u \in DOMAIN users : users[u].email = req.row.email
            THEN /\ r.status = 409
                 /\ r.users = users
                 /\ r.issued = NoToken
            ELSE /\ r.status \in {200, 201}
                 /\ Len(r.users) = Len(users) + 1

\* C18 witness: a federated signup passed its lookup, and before its commit
\* another creation persisted a row with the same email.
C18_Witness ==
    \E req \in pending, u \in DOMAIN users :
      /\ req.kind = "google"
      /\ users[u].email = req.row.email

\* C19 as stated: for every expires_delta, the token made by
\* create_access_token expires strictly after it was issued.
C19_AsStated ==
    \A u \in DOMAIN users, d \in Deltas :
      LET tok == create_access_token_expires(str(u), users[u].email, d, now)
      IN tok.claims.exp > tok.claims.iat

\* Session tokens for any row id and address, issued by now.
SessionInputs ==
    {create_access_token(id, e, i) :
        id \in RowIds, e \in Emails, i \in {j \in IssueTimes : j <= now}}

\* C20: a session token issued for user id U and email E verifies, at every
\* instant before its expiry, to exactly subject U and email E; from its
\* expiry on verify_token fails with "Token has expired"; and a token whose
\* signature does not verify is refused with "Could not validate
\* credentials" at every instant and yields no token data.
C20_SessionVerify ==
    \A tok \in SessionInputs, t \in Horizon :
      LET v == verify_token(tok, t)
          f == verify_token(Forge(tok), t)
      IN /\ t < tok.claims.exp =>
              /\ v.detail = None
              /\ v.user_id = tok.claims.sub
              /\ v.email = tok.claims.email
         /\ t >= tok.claims.exp =>
              /\ v.detail = "Token has expired"
              /\ v.user_id = None
         /\ f.detail = "Could not validate credentials"
         /\ f.user_id = None /\ f.email = None

\* C20 witness: the session token of an existing account has expired by now
\* and no longer authenticates it.
C20_Witness ==
    \E tok \in IssuedSession :
      /\ now >= tok.claims.exp
      /\ verify_token(tok, now).detail = "Token has expired"
      /\ get_current_user(users, tok, now).user = NoUser

\* C21 as stated: without a private key neither kind of token is issued and
\* the call fails with a server-side (configuration) error; without a public
\* key every verification of either kind fails with a server-side
\* (configuration) error, never with the invalid-token or expired-token
\* error, and accepts nothing.
C21_AsStated ==
    /\ \A id \in RowIds, e \in Emails, p \in Purposes :
         /\ create_access_token_keys(FALSE, id, e, now).status = 500
         /\ create_access_token_keys(FALSE, id, e, now).token = NoToken
         /\ create_verification_token_keys(FALSE, id, e, p, now).status = 500
         /\ create_verification_token_keys(FALSE, id, e, p, now).token = NoToken
    /\ \A tok \in SessionInputs \cup TokenInputs \cup {Malformed}, t \in Horizon :
         /\ verify_token_keys(FALSE, tok, t).status = 500
         /\ verify_token_keys(FALSE, tok, t).user_id = None
         /\ \A q \in Purposes :
              LET v == verify_verification_token_keys(FALSE, tok, q, t)
              IN /\ v.status = 500
                 /\ v.detail \notin {"Invalid token", "Token has expired"}
                 /\ v.user_id = None

\* C22: the cache holds at most one entry per key and every key is a
\* lower-cased address; and after two stores for addresses that differ at
\* most in letter case, the first code is refused as a mismatch (when the
\* codes differ) and the second code is accepted and yields the second
\* store's user id, whichever spelling of the address is submitted.
C22_OneCodePerEmail ==
    /\ \A i \in 1..Len(Verification_cache), j \in 1..Len(Verification_cache) :
         /\ Verification_cache[i].key = lower(Verification_cache[i].key)
         /\ Verification_cache[i].key = Verification_cache[j].key => i = j
    /\ \A e1 \in Emails : \A e2 \in {x \in Emails : lower(x) = lower(e1)},
          e3 \in {x \in Emails : lower(x) = lower(e1)},
          c1 \in Codes, c2 \in Codes, u1 \in {UUIDs[1]}, u2 \in {UUIDs[2]} :
         LET first == store_verification_code(Verification_cache, e1, c1, u1, now)
             second == store_verification_code(first, e2, c2, u2, now)
             old == verify_stored_code(second, e3, c1, now)
             new == verify_stored_code(second, e3, c2, now)
         IN /\ Cardinality({i \in 1..Len(second) : second[i].key = lower(e1)}) = 1
            /\ c1 # c2 => old.detail = InvalidCodeMsg
            /\ new.detail = None /\ new.user_id = u2

\* C22 witness: a live entry is filed under the lower-cased form of an
\* address that its account spells with a capital.
C22_Witness ==
    \E u \in DOMAIN users :
      /\ users[u].email # lower(users[u].email)
      /\ Contains(Verification_cache, lower(users[u].email), now)
      /\ Entry(Verification_cache, lower(users[u].email)).user_id = str(u)

\* Seconds elapsed between a store and a read.
Elapsed ==
    {0, Verification_cache_ttl - 1, Verification_cache_ttl, Verification_cache_ttl + 1}

\* C23: a code stored at some instant is accepted (with the right code) at
\* every read less than 300 s later and refused as expired / not found at
\* every read 300 s or more later; the read itself decides this, whether or
\* not the expired entry has been swept out of the cache: an entry of the
\* cache past its expiry is refused although it is still stored.
C23_TTL ==
    /\ \A e \in Emails, c \in Codes, u \in RowIds, d \in Elapsed :
         LET stored == store_verification_code(Verification_cache, e, c, u, now)
             r == verify_stored_code(stored, e, c, now + d)
         IN IF d < 300
            THEN r.detail = None /\ r.user_id = u
            ELSE r.detail = ExpiredCodeMsg /\ r.cache = stored
    /\ \A i \in 1..Len(Verification_cache) :
         LET en == Verification_cache[i]
             r == verify_stored_code(Verification_cache, en.key, en.code, now)
         IN IF now < en.expires
            THEN r.detail = None
            ELSE r.detail = ExpiredCodeMsg

\* C23 witness: the cache still stores an entry whose 300 s have passed.
C23_Witness ==
    \E i \in 1..Len(Verification_cache) :
      /\ Verification_cache[i].expires <= now
      /\ verify_stored_code(Verification_cache, Verification_cache[i].key,
                            Verification_cache[i].code, now).detail = ExpiredCodeMsg

\* What the five notifying routes answer to every request at this instant.
NotifyingResponses ==
    {send_verification_email(users, Verification_cache, e, c, now) :
        e \in Emails, c \in Codes}
    \cup {resend_verification_email(users, Verification_cache, tok, c, now) :
        tok \in Presentable(users, now), c \in Codes}
    \cup {verify_email(users, Verification_cache, e, c, now) :
        e \in Emails, c \in Codes}
    \cup {forgot_password(users, Verification_cache, e, now) : e \in Emails}
    \cup {reset_password(users, Verification_cache, tok, p, s, now) :
        tok \in Presentable(users, now), p \in Passwords, s \in Salts}

\* C24: whatever happens to the queued emails (delivered, render error, a
\* status other than 200, an exception of the send), the caller gets the
\* handler's own status and detail, the users table and the cache are as the
\* handler left them, no task raises, and each task makes one send attempt.
C24_DispatchFrame ==
    \A r \in NotifyingResponses, o \in MailOutcomes :
      LET d == after_response(r, o)
      IN /\ d.status = r.status /\ d.detail = r.detail
         /\ d.users = r.users /\ d.cache = r.cache
         /\ Len(d.runs) = Len(r.tasks)
         /\ \A i \in 1..Len(d.runs) : ~d.runs[i].raised /\ d.runs[i].sends = 1

\* C24 witness: a reset-password request succeeds and queues its notice,
\* and the send of that notice raises.
C24_Witness ==
    \E tok \in Presentable(users, now), p \in Passwords, s \in Salts :
      LET r == reset_password(users, Verification_cache, tok, p, s, now)
      IN /\ r.tasks # <<>>
         /\ after_response(r, "send_exception").runs[1].log = "error: exception"
         /\ after_response(r, "send_exception").status = 200

\* Plaintexts and salts handed to the hasher.
PlainInputs == Passwords \cup {"secret2", LongX, LongY}
SaltInputs == {1, 2}

\* C25 as stated: for all plaintexts p and q, hashing p raises nothing,
\* verifying p against its hash is true, verifying q # p against it is
\* false and raises nothing, and hashes of p under two salts differ; so an
\* account whose stored hash is that of p is not logged into with q # p.
C25_AsStated ==
    \A build \in BcryptBuilds, p \in PlainInputs, q \in PlainInputs,
       s1 \in SaltInputs, s2 \in SaltInputs :
      LET h == hashpw(build, p, s1)
      IN /\ h.err = None
         /\ checkpw(build, p, h.hash).ok
         /\ q # p => /\ checkpw(build, q, h.hash).err = None
                      /\ ~checkpw(build, q, h.hash).ok
         /\ s1 # s2 => hashpw(build, p, s2).hash # h.hash
         /\ \A u \in DOMAIN users :
              q # p =>
                login_user([users EXCEPT ![u].password = hash_password(p, s1)],
                           Verification_cache, users[u].email, q, now).status = 401

\* C26 as stated: from the same users table, a link token and a stored code
\* that resolve to the same user id and bound email have the same outcome on
\* their channels: the same status and error, and the same users table
\* afterwards, also when the bound email and the row's email differ only in
\* letter case.
C26_AsStated ==
    \A id \in RowIds, e \in Emails, c \in Codes :
      LET link == verify_user_email(
                      users, Verification_cache,
                      create_verification_token(id, e, "email_verification", now),
                      now)
          code == verify_user_email_with_code(
                      users,
                      store_verification_code(Verification_cache, e, c, id, now),
                      e, c, now)
      IN /\ link.status = code.status
         /\ link.detail = code.detail
         /\ link.users = code.users

\* The cache after three more operations, one second apart: a store for
\* e1, a store for e2, and then a read with a wrong code for `read` (or no
\* read when `read` is None).
Filled(e1, e2, read) ==
    LET x1 == store_verification_code(Verification_cache, e1, "100000", UUIDs[1], now)
        x2 == store_verification_code(x1, e2, "100000", UUIDs[1], now + 1)
    IN IF read = None THEN x2
       ELSE verify_stored_code(x2, read, "999999", now + 2).cache

\* A store, into a cache that is exactly full, for an address not in it.
StoreWhenFull(cache) ==
    TTLCache_setitem(Len(Expire(cache, now + 3)), cache, "c@x.com",
                     [code |-> "100000", user_id |-> UUIDs[1]], now + 3)

\* C27 as stated: a store for a new address into a full cache removes the
\* live entry that was stored longest ago.
C27_AsStated ==
    \A e1 \in Emails, e2 \in Emails : \A read \in {e1, None} :
      LET full == Filled(e1, e2, read)
          live == Expire(full, now + 3)
          r == StoreWhenFull(full)
      IN \A i \in 1..Len(r) : r[i].key # Oldest(live).key

\* C27 amended: the cache never holds more entries than its capacity, and a
\* store for a new address into a full cache removes exactly one entry, the
\* least recently used live one (the one whose last store or last read by a
\* wrong-code attempt lies longest ago), never the entry just written; all
\* other live entries stay.
C27_Capacity ==
    /\ Len(Verification_cache) <= Verification_cache_maxsize
    /\ \A e1 \in Emails, e2 \in Emails : \A read \in {e1, None} :
         LET full == Filled(e1, e2, read)
             live == Expire(full, now + 3)
             r == StoreWhenFull(full)
         IN /\ Len(r) = Len(live)
            /\ r[Len(r)].key = "c@x.com"
            /\ SubSeq(r, 1, Len(r) - 1) = Tail(live)
            /\ \A i \in 1..Len(r) : r[i].key # Head(live).key

\* C27 witness: the cache holds a live code, so that a store for another
\* address into a cache of that size evicts it.
C27_Witness ==
    /\ Len(Expire(Verification_cache, now)) >= 1
    /\ LET r == TTLCache_setitem(Len(Expire(Verification_cache, now)),
                                 Verification_cache, "c@x.com",
                                 [code |-> "100000", user_id |-> UUIDs[1]], now)
       IN \A i \in 1..Len(r) :
            r[i].key # Head(Expire(Verification_cache, now)).key

\* The users tables left by every request that is not a verify-email.
OtherOutcomes ==
    {login_user(users, Verification_cache, e, p, now).users :
        e \in Emails, p \in Passwords}
    \cup {send_verification_email(users, Verification_cache, e, c, now).users :
        e \in Emails, c \in Codes}
    \cup {resend_verification_email(users, Verification_cache, tok, c, now).users :
        tok \in Presentable(users, now), c \in Codes}
    \cup {get_me(users, Verification_cache, tok, now).users :
        tok \in Presentable(users, now)}
    \cup {forgot_password(users, Verification_cache, e, now).users : e \in Emails}
    \cup {reset_password(users, Verification_cache, tok, p, s, now).users :
        tok \in Presentable(users, now), p \in Passwords, s \in Salts}
    \cup {google_callback_login(users, Verification_cache, a, now).users :
        a \in Assertions}
    \cup {google_callback_signup(users, Verification_cache, a, s, now).users :
        a \in Assertions, s \in Salts}
    \cup {create_user(users, Verification_cache, e, p, s, c, now).users :
        e \in Emails, p \in Passwords, s \in Salts, c \in Codes}

\* C28: the verified flag is monotonic.  Every request other than a
\* verify-email leaves every existing row's email_verified as it was (rows
\* are never removed); a verify-email by link or by code never clears a flag,
\* and sets a flag only when verify_user_email / verify_user_email_with_code
\* succeeds, and then only the flag of the row the token or the stored code
\* names.
C28_VerifiedMonotonic ==
    /\ \A us \in OtherOutcomes :
         /\ Len(us) >= Len(users)
         /\ \A u \in DOMAIN users : us[u].email_verified = users[u].email_verified
    /\ \A tok \in Presentable(users, now) \cup TokenInputs :
         LET r == verify_user_email(users, Verification_cache, tok, now)
         IN /\ DOMAIN r.users = DOMAIN users
            /\ \A u \in DOMAIN users :
                 /\ users[u].email_verified => r.users[u].email_verified
                 /\ r.users[u].email_verified /\ ~users[u].email_verified
                      => r.status = 200 /\ u = UUID(tok.claims.sub)
    /\ \A e \in Emails, c \in Codes :
         LET r == verify_user_email_with_code(users, Verification_cache, e, c, now)
             route == verify_email(users, Verification_cache, e, c, now)
         IN /\ DOMAIN r.users = DOMAIN users
            /\ route.users = r.users
            /\ \A u \in DOMAIN users :
                 /\ users[u].email_verified => r.users[u].email_verified
                 /\ r.users[u].email_verified /\ ~users[u].email_verified
                      => /\ r.status = 200
                         /\ Contains(Verification_cache, lower(e), now)
                         /\ u = UUID(Entry(Verification_cache, lower(e)).user_id)

\* C28 witness: an account verified through verify-email resets its password
\* successfully while verified.
C28_Witness ==
    \E u \in DOMAIN users :
      /\ users[u].email_verified
      /\ ~users[u].google_auth
      /\ \E tok \in Presentable(users, now), p \in Passwords, s \in Salts :
           LET r == reset_user_password(users, Verification_cache, tok, p, s, now)
           IN r.status = 200 /\ r.user = u

\* C29: verify_user_email_with_code consumes the entry as soon as the
\* submitted code matches.  With a live entry for the address: when the code
\* matches, the entry is gone after the call whatever its outcome (success,
\* 404 "User not found", "Email mismatch" or "Email is already verified"),
\* and a retry with any code at any later time fails with the expired-code
\* error; when the code does not match, the call fails with "Invalid
\* verification code" and the entry is still there with the same code, user
\* id and expiry.
C29_ConsumedOnMatch ==
    \A e \in Emails, c \in Codes, uid \in RowIds :
      LET cache == store_verification_code(Verification_cache, e, c, uid, now)
          en == Entry(cache, lower(e))
      IN \A x \in Codes :
           LET r == verify_user_email_with_code(users, cache, e, x, now)
           IN IF x = c
              THEN /\ r.detail \in {None, "User not found", "Email mismatch",
                                    "Email is already verified"}
                   /\ ~Contains(r.cache, lower(e), now)
                   /\ \A x2 \in Codes, t2 \in Later :
                        verify_user_email_with_code(r.users, r.cache, e, x2, t2).detail
                          = ExpiredCodeMsg
              ELSE /\ r.detail = InvalidCodeMsg
                   /\ Contains(r.cache, lower(e), now)
                   /\ Entry(r.cache, lower(e)) = en

\* C29 witness: the cache holds a live code of an account that is already
\* verified, so the matching code is consumed by a call that fails.
C29_Witness ==
    \E e \in Emails, c \in Codes :
      LET r == verify_user_email_with_code(users, Verification_cache, e, c, now)
      IN /\ Contains(Verification_cache, lower(e), now)
         /\ r.detail = "Email is already verified"
         /\ ~Contains(r.cache, lower(e), now)

\* Session tokens as create_access_token makes them, and one well-signed
\* token whose subject is not a UUID.
BearerInputs ==
    SessionInputs \cup
    {jwt_encode([sub |-> "not-a-uuid", email |-> e,
                 exp |-> ACCESS_TOKEN_EXPIRE_MINUTES * 60, iat |-> 0]) : e \in Emails}

\* C30: a password reset revokes no session.  After any successful
\* reset_user_password, get_current_user answers for every session token and
\* at every later instant what it answered before the reset; in particular
\* the token of the account whose password was reset still authenticates it
\* at every instant before the token's own expiry.  And a token that
\* verify_token accepts is rejected by get_current_user exactly when its
\* subject is not a UUID ("Invalid user ID in token") or names no row
\* ("User not found").
C30_ResetKeepsSessions ==
    /\ \A rt \in Presentable(users, now), p \in Passwords, s \in Salts :
         LET r == reset_user_password(users, Verification_cache, rt, p, s, now)
         IN r.status = 200 =>
              \A tok \in BearerInputs, t \in Horizon :
                /\ get_current_user(r.users, tok, t) = get_current_user(users, tok, t)
                /\ UUID(tok.claims.sub) = r.user /\ t < tok.claims.exp =>
                     /\ verify_token(tok, t).detail = None
                     /\ get_current_user(r.users, tok, t).detail = None
                     /\ get_current_user(r.users, tok, t).user = r.user
    /\ \A tok \in BearerInputs, t \in Horizon :
         LET cu == get_current_user(users, tok, t)
             id == UUID(tok.claims.sub)
         IN verify_token(tok, t).detail = None =>
              /\ cu.detail # None <=> (id = 0 \/ id \notin DOMAIN users)
              /\ id = 0 => cu.detail = "Invalid user ID in token"
              /\ id # 0 /\ id \notin DOMAIN users => cu.detail = "User not found"
              /\ cu.detail = None => cu.user = id

\* C30 witness: an account holds a session token issued earlier, and a
\* reset that succeeds now changes its password while the token still
\* authenticates the account.
C30_Witness ==
    \E u \in DOMAIN users, tok \in IssuedSession :
      /\ UUID(tok.claims.sub) = u
      /\ users[u].updated_at <= tok.claims.iat
      /\ tok.claims.iat < now
      /\ \E rt \in Presentable(users, now), p \in Passwords, s \in Salts :
           LET r == reset_user_password(users, Verification_cache, rt, p, s, now)
           IN /\ r.status = 200
              /\ r.user = u
              /\ r.users[u].password # users[u].password
              /\ get_current_user(r.users, tok, now).detail = None
              /\ get_current_user(r.users, tok, now).user = u

====
